---- MODULE Spec2Model ----
(***************************************************************************)
(* libem: the K-Means initializer (kmeans and its helpers) and the EM      *)
(* driver loop, as state machines.                                         *)
(*                                                                         *)
(* A C double is modelled as an integer counting units of 1/Scale          *)
(* (fixed point, results of a division or product truncated toward zero),  *)
(* saturating to +Inf / -Inf beyond MaxFinite, with a NaN that follows the *)
(* IEEE 754 rules the arithmetic of the code relies on (x/0, 0/0, Inf-Inf, *)
(* comparisons with NaN are false).                                        *)
(*                                                                         *)
(* An array is a function from its C indices 0..len-1.  A read outside an  *)
(* array yields a value chosen from OobValues; a write outside an array    *)
(* either leaves the modelled state alone or aborts the run                *)
(* (pc = "crashed"); both leave a mark in ub.                              *)
(***************************************************************************)
EXTENDS Integers, FiniteSets, Sequences, TLC

\* ------------------------------------------------------------- bounds
MaxN == 2
MaxK == 3
MaxDim == 1
Scale == 4
MaxFinite == 4000000
MaxLik == 6
epsilon == 1
EMIterationCap == 2

\* ------------------------------------------------- program constants
\* double closest_distance = 100000;
closest_distance_init == 100000
\* double prev_totD = 10000.0;
prev_totD_init == 10000
\* while (batch_iteration < 100.)
MaxBatchIterations == 100
\* double array [3] = {0, 5, 10};
CentroidArrayLen == 3
\* int carray[3];
CarrayLen == 3
\* #define MAX_CLUSTERS 16
MAX_CLUSTERS == 16

\* ------------------------------------------------------------ doubles
PInf == MaxFinite + 1
NInf == -PInf
NaN == MaxFinite + 2

Abs(a) == IF a < 0 THEN -a ELSE a
Sign(a) == IF a < 0 THEN -1 ELSE IF a > 0 THEN 1 ELSE 0
TruncDiv(a, b) == Sign(a) * Sign(b) * (Abs(a) \div Abs(b))
IsInf(a) == a = PInf \/ a = NInf
Saturate(v) == IF v > MaxFinite THEN PInf ELSE IF v < -MaxFinite THEN NInf ELSE v
FromInt(i) == Saturate(i * Scale)

DNeg(a) == IF a = NaN THEN NaN ELSE -a

DAdd(a, b) ==
    IF a = NaN \/ b = NaN THEN NaN
    ELSE IF IsInf(a) THEN (IF b = -a THEN NaN ELSE a)
    ELSE IF IsInf(b) THEN b
    ELSE Saturate(a + b)

DSub(a, b) == DAdd(a, DNeg(b))

DMul(a, b) ==
    IF a = NaN \/ b = NaN THEN NaN
    ELSE IF IsInf(a) \/ IsInf(b)
         THEN (IF a = 0 \/ b = 0 THEN NaN
               ELSE IF Sign(a) * Sign(b) > 0 THEN PInf ELSE NInf)
    ELSE IF a = 0 \/ b = 0 THEN 0
    ELSE IF Abs(a) > (MaxFinite * Scale + Scale - 1) \div Abs(b)
         THEN (IF Sign(a) * Sign(b) > 0 THEN PInf ELSE NInf)
    ELSE TruncDiv(a * b, Scale)

\* a / (double)c for an int c
DDivInt(a, c) ==
    IF a = NaN THEN NaN
    ELSE IF c = 0 THEN (IF a = 0 THEN NaN ELSE IF a > 0 THEN PInf ELSE NInf)
    ELSE IF IsInf(a) THEN (IF c > 0 THEN a ELSE -a)
    ELSE TruncDiv(a, c)

DLess(a, b) == a # NaN /\ b # NaN /\ a < b
DGreater(a, b) == DLess(b, a)
DLessEq(a, b) == a # NaN /\ b # NaN /\ a <= b

\* #define sqr(x) ((x)*(x))
sqr(x) == DMul(x, x)

\* ------------------------------------------------------ memory reads
\* what a read outside an array may find
OobValues == {0, FromInt(closest_distance_init)}

\* the cells idx of 0..len-1 that lie outside an array of arrlen cells
OobCells(len, arrlen) == {i \in 0..(len - 1) : i >= arrlen}

\* the first len cells seen through a pointer to an array of arrlen cells,
\* g giving what the cells beyond the array hold
View(arr, arrlen, len, g) ==
    [i \in 0..(len - 1) |-> IF i < arrlen THEN arr[i] ELSE g[i]]

\* ---------------------------------------------------- support functions
RECURSIVE EuclidSum(_, _, _, _, _, _)
EuclidSum(dim, X, xbase, c, cbase, ii) ==
    IF ii = 0 THEN 0
    ELSE DAdd(EuclidSum(dim, X, xbase, c, cbase, ii - 1),
              sqr(DSub(X[xbase + ii - 1], c[cbase + ii - 1])))

\* euclid_distance(dim, &X[xbase], &c[cbase])
euclid_distance(dim, X, xbase, c, cbase) == EuclidSum(dim, X, xbase, c, cbase, dim)

\* all_distances: distance_out[ii*k + jj]
all_distances(dim, n, k, X, centroid) ==
    [i \in 0..(n * k - 1) |->
        euclid_distance(dim, X, (i \div k) * dim, centroid, (i % k) * dim)]

RECURSIVE TotalSum(_, _, _, _, _)
TotalSum(dim, X, centroids, cai, ii) ==
    IF ii = 0 THEN 0
    ELSE LET rest == TotalSum(dim, X, centroids, cai, ii - 1)
             active_cluster == cai[ii - 1]
         IN IF active_cluster # -1
            THEN DAdd(rest, euclid_distance(dim, X, (ii - 1) * dim,
                                            centroids, active_cluster * dim))
            ELSE rest

calc_total_distance(dim, n, k, X, centroids, cai) == TotalSum(dim, X, centroids, cai, n)

\* the inner loop over jj of choose_all_clusters_from_distances, for point ii:
\* <<best_index, closest_distance>> after jj clusters
RECURSIVE BestAfter(_, _, _, _)
BestAfter(k, distance_array, ii, jj) ==
    IF jj = 0 THEN <<-1, FromInt(closest_distance_init)>>
    ELSE LET b == BestAfter(k, distance_array, ii, jj - 1)
             cur_distance == distance_array[ii * k + jj - 1]
         IN IF DLess(cur_distance, b[2]) THEN <<jj - 1, cur_distance>> ELSE b

choose_all_clusters_from_distances(n, k, distance_array) ==
    [ii \in 0..(n - 1) |-> BestAfter(k, distance_array, ii, k)[1]]

\* get_cluster_member_count, the cells of the count array that exist
get_cluster_member_count(n, k, cai, len) ==
    [c \in 0..(len - 1) |-> Cardinality({ii \in 0..(n - 1) : cai[ii] = c})]

\* assignment_change_count with the loop stopping after the first point
assignment_change_count_first(n, a, b) == IF a[0] # b[0] THEN 1 ELSE 0

\* assignment_change_count
assignment_change_count(n, a, b) == Cardinality({ii \in 0..(n - 1) : a[ii] # b[ii]})

\* the value cell idx of the centroid buffer holds after the summing loop has
\* run over the first ii points: every point adds its coordinate to the cell of
\* its cluster
RECURSIVE CellSum(_, _, _, _, _, _)
CellSum(start, dim, X, cai, idx, ii) ==
    IF ii = 0 THEN start
    ELSE LET rest == CellSum(start, dim, X, cai, idx, ii - 1)
         IN IF cai[ii - 1] # -1 /\ cai[ii - 1] = idx \div dim
            THEN DAdd(rest, X[(ii - 1) * dim + (idx % dim)])
            ELSE rest

\* the loop "initialize cluster centroid coordinate sums to zero": it stores 0
\* in cell dim*k, k times, and in no other cell
ZeroedSums(dim, k, buf, arrlen) ==
    IF dim * k < arrlen THEN [buf EXCEPT ![dim * k] = 0] ELSE buf

\* calc_cluster_centroids, the cells of new_cluster_centroid that exist
calc_cluster_centroids(dim, n, k, X, cai, buf, arrlen) ==
    LET zeroed == ZeroedSums(dim, k, buf, arrlen)
        cluster_member_count == get_cluster_member_count(n, k, cai, CarrayLen)
    IN [idx \in 0..(arrlen - 1) |->
          LET sum == CellSum(zeroed[idx], dim, X, cai, idx, n)
          IN IF idx < k * dim
             THEN DDivInt(sum, cluster_member_count[idx \div dim])
             ELSE sum]

\* the divisors calc_cluster_centroids uses at line 210, one per cluster whose
\* count cell exists
CentroidDivisors(n, k, cai) ==
    LET cluster_member_count == get_cluster_member_count(n, k, cai, CarrayLen)
    IN [ii \in 0..((IF k < CarrayLen THEN k ELSE CarrayLen) - 1) |->
          cluster_member_count[ii]]

\* calc_cluster_centroids stores outside new_cluster_centroid or carray
CalcWritesOutside(dim, n, k, cai, arrlen) ==
    \/ dim * k >= arrlen
    \/ k > CarrayLen
    \/ \E ii \in 0..(n - 1) : cai[ii] = -1

\* lines 180-181: calc_cluster_centroids prints new_cluster_centroid[b], b < k
CalcReadsOutside(k, arrlen) == k > arrlen

\* line 268: cluster_diag prints cluster_centroid[ii*dim + 0], ii < k
DiagReadsOutside(dim, k, arrlen) == (k - 1) * dim >= arrlen

\* get_cluster_member_count stores outside a count array of len cells
CountWritesOutside(n, k, cai, len) ==
    \/ k > len
    \/ \E ii \in 0..(n - 1) : cai[ii] = -1 \/ cai[ii] >= len

\* ------------------------------------------------------------- state
VARIABLES
    dim, n, k, X,                \* the arguments of kmeans
    caller_centroid,             \* the buffer the caller passed as cluster_centroid
    array,                       \* double array[3], what cluster_centroid points at
    dist,
    cluster_assignment_cur,
    cluster_assignment_prev,
    cluster_assignment_final,
    prev_totD, totD, batch_iteration,
    pc,                          \* position in kmeans
    ub,                          \* accesses outside an array made so far
    exit_reason,                 \* which exit the batch loop took
    n_updates,                   \* calls of calc_cluster_centroids at line 359
    divisors,                    \* divisors of the latest calc_cluster_centroids
    accepted,                    \* <<prev_totD, totD, assignment, centroids>> of the latest accepted iteration
    em                           \* the EM driver

kvars == <<dim, n, k, X, caller_centroid, array, dist, cluster_assignment_cur,
           cluster_assignment_prev, cluster_assignment_final, prev_totD, totD,
           batch_iteration, pc, ub, exit_reason, n_updates, divisors, accepted>>
vars == <<kvars, em>>

\* the datasets tried: points near the seeds 0, 5, 10, and points of which some
\* are farther than closest_distance_init from every seed
NearValues == {FromInt(0), FromInt(6)}
FarValues == {FromInt(0), FromInt(400)}
Datasets(len) == [0..(len - 1) -> NearValues] \cup [0..(len - 1) -> FarValues]
\* what the caller's centroid buffer holds at the call
CallerFill == {FromInt(0), FromInt(7)}


KInit ==
    /\ dim \in 1..MaxDim
    /\ n \in 1..MaxN
    /\ k \in 1..MaxK
    /\ X \in Datasets(n * dim)
    /\ \E v \in CallerFill : caller_centroid = [i \in 0..(k * dim - 1) |-> v]
    /\ array = [i \in 0..(CentroidArrayLen - 1) |-> 0]
    /\ dist = [i \in 0..(n * k - 1) |-> 0]
    /\ cluster_assignment_cur = [i \in 0..(n - 1) |-> 0]
    /\ cluster_assignment_prev = [i \in 0..(n - 1) |-> 0]
    /\ cluster_assignment_final = [i \in 0..(n - 1) |-> 0]
    /\ prev_totD = 0
    /\ totD = 0
    /\ batch_iteration = 0
    /\ pc = "start"
    /\ ub = {}
    /\ exit_reason = "none"
    /\ n_updates = 0
    /\ divisors = <<>>
    /\ accepted = <<>>

\* the EM driver before it is called
EMIdle ==
    [pc |-> "idle", likelihood |-> 0, old_likelihood |-> 0, counter |-> 0,
     e_output |-> [theta_array |-> 0, likelihood |-> 0], m_output |-> 0,
     estep_args |-> 0, iterations |-> 0, tested |-> <<>>]

Init == KInit /\ em = EMIdle

\* where a step goes that has stored outside an array
AfterWrite(outside, next) == IF outside THEN {next, "crashed"} ELSE {next}
Mark(outside, what) == IF outside THEN ub \cup {what} ELSE ub

\* lines 337-350: cluster_centroid = array; the initial assignment
KmeansSetup ==
    /\ pc = "start"
    /\ \E g \in [OobCells(k * dim, CentroidArrayLen) -> OobValues] :
         LET seeds == [i \in 0..(CentroidArrayLen - 1) |-> FromInt(5 * i)]
             d == all_distances(dim, n, k, X, View(seeds, CentroidArrayLen, k * dim, g))
             a == choose_all_clusters_from_distances(n, k, d)
         IN /\ array' = seeds
            /\ dist' = d
            /\ cluster_assignment_cur' = a
            /\ cluster_assignment_prev' = a
    /\ ub' = Mark(k * dim > CentroidArrayLen, "centroid read")
    /\ prev_totD' = FromInt(prev_totD_init)
    /\ batch_iteration' = 0
    /\ pc' = "loop"
    /\ UNCHANGED <<dim, n, k, X, caller_centroid, cluster_assignment_final, totD,
                   exit_reason, n_updates, divisors, accepted, em>>

\* line 351 true, line 356: cluster_diag counts into int [MAX_CLUSTERS]
ClusterDiag ==
    /\ pc = "loop"
    /\ batch_iteration < MaxBatchIterations
    /\ LET outside == CountWritesOutside(n, k, cluster_assignment_cur, MAX_CLUSTERS)
       IN /\ pc' \in AfterWrite(outside, "update")
          /\ ub' = (Mark(outside, "cluster_diag count write")
                      \cup Mark(DiagReadsOutside(dim, k, CentroidArrayLen),
                                "centroid read"))
    /\ UNCHANGED <<dim, n, k, X, caller_centroid, array, dist, cluster_assignment_cur,
                   cluster_assignment_prev, cluster_assignment_final, prev_totD, totD,
                   batch_iteration, exit_reason, n_updates, divisors, accepted, em>>

\* line 351 false: the iteration cap
LoopCapExit ==
    /\ pc = "loop"
    /\ ~(batch_iteration < MaxBatchIterations)
    /\ exit_reason' = "cap"
    /\ pc' = "write"
    /\ UNCHANGED <<dim, n, k, X, caller_centroid, array, dist, cluster_assignment_cur,
                   cluster_assignment_prev, cluster_assignment_final, prev_totD, totD,
                   batch_iteration, ub, n_updates, divisors, accepted, em>>

\* line 359: update cluster centroids
UpdateCentroids ==
    /\ pc = "update"
    /\ array' = calc_cluster_centroids(dim, n, k, X, cluster_assignment_cur, array,
                                       CentroidArrayLen)
    /\ divisors' = CentroidDivisors(n, k, cluster_assignment_cur)
    /\ n_updates' = n_updates + 1
    /\ LET outside == CalcWritesOutside(dim, n, k, cluster_assignment_cur, CentroidArrayLen)
       IN /\ pc' \in AfterWrite(outside, "total")
          /\ ub' = (Mark(outside, "calc_cluster_centroids write")
                      \cup Mark(CalcReadsOutside(k, CentroidArrayLen),
                                "centroid read"))
    /\ UNCHANGED <<dim, n, k, X, caller_centroid, dist, cluster_assignment_cur,
                   cluster_assignment_prev, cluster_assignment_final, prev_totD, totD,
                   batch_iteration, exit_reason, accepted, em>>

\* line 366: totD
TotalDistance ==
    /\ pc = "total"
    /\ \E g \in [OobCells(k * dim, CentroidArrayLen) -> OobValues] :
         totD' = calc_total_distance(dim, n, k, X,
                     View(array, CentroidArrayLen, k * dim, g), cluster_assignment_cur)
    /\ ub' = Mark(k * dim > CentroidArrayLen, "centroid read")
    /\ pc' = "compare"
    /\ UNCHANGED <<dim, n, k, X, caller_centroid, array, dist, cluster_assignment_cur,
                   cluster_assignment_prev, cluster_assignment_final, prev_totD,
                   batch_iteration, exit_reason, n_updates, divisors, accepted, em>>

\* lines 369-379: failed to improve, go back to the old assignments and stop
FailedToImprove ==
    /\ pc = "compare"
    /\ DGreater(totD, prev_totD)
    /\ cluster_assignment_cur' = cluster_assignment_prev
    /\ array' = calc_cluster_centroids(dim, n, k, X, cluster_assignment_prev, array,
                                       CentroidArrayLen)
    /\ divisors' = CentroidDivisors(n, k, cluster_assignment_prev)
    /\ exit_reason' = "worse"
    /\ LET outside == CalcWritesOutside(dim, n, k, cluster_assignment_prev, CentroidArrayLen)
       IN /\ pc' \in AfterWrite(outside, "write")
          /\ ub' = (Mark(outside, "calc_cluster_centroids write")
                      \cup Mark(CalcReadsOutside(k, CentroidArrayLen),
                                "centroid read"))
    /\ UNCHANGED <<dim, n, k, X, caller_centroid, dist, cluster_assignment_prev,
                   cluster_assignment_final, prev_totD, totD, batch_iteration,
                   n_updates, accepted, em>>

\* lines 380-398: the iteration is accepted; save it, reassign every point.
\* Line 384 passes dist as X and X as distance_array.
Reassign ==
    /\ pc = "compare"
    /\ ~DGreater(totD, prev_totD)
    /\ accepted' = <<prev_totD, totD, cluster_assignment_cur, array>>
    /\ cluster_assignment_prev' = cluster_assignment_cur
    /\ \E g \in [OobCells(k * dim, CentroidArrayLen) -> OobValues],
          h \in [OobCells(n * k, n * dim) -> OobValues] :
         LET d == all_distances(dim, n, k, X, View(array, CentroidArrayLen, k * dim, g))
             a == choose_all_clusters_from_distances(n, k, View(X, n * dim, n * k, h))
             change_count == assignment_change_count(n, a, cluster_assignment_cur)
         IN /\ dist' = d
            /\ cluster_assignment_cur' = a
            /\ IF change_count = 0
               THEN /\ exit_reason' = "nochange"
                    /\ pc' = "write"
                    /\ UNCHANGED <<prev_totD, batch_iteration>>
               ELSE /\ prev_totD' = totD
                    /\ batch_iteration' = batch_iteration + 1
                    /\ pc' = "loop"
                    /\ UNCHANGED exit_reason
    /\ ub' = (Mark(k * dim > CentroidArrayLen, "centroid read")
                \cup (IF n * k > n * dim THEN {"X read"} ELSE {}))
    /\ UNCHANGED <<dim, n, k, X, caller_centroid, array, cluster_assignment_final,
                   totD, n_updates, divisors, em>>

\* line 401: write to output array
WriteFinal ==
    /\ pc = "write"
    /\ cluster_assignment_final' = cluster_assignment_cur
    /\ pc' = "done"
    /\ UNCHANGED <<dim, n, k, X, caller_centroid, array, dist, cluster_assignment_cur,
                   cluster_assignment_prev, prev_totD, totD, batch_iteration, ub,
                   exit_reason, n_updates, divisors, accepted, em>>

Next ==
    \/ KmeansSetup
    \/ ClusterDiag
    \/ LoopCapExit
    \/ UpdateCentroids
    \/ TotalDistance
    \/ FailedToImprove
    \/ Reassign
    \/ WriteFinal

Spec == Init /\ [][Next]_vars

\* --------------------------------------------------------- K-Means claims
InRange(a) == \A ii \in 0..(n - 1) : a[ii] \in 0..(k - 1)

\* C1: every call of kmeans terminates with the final assignment written, after
\* at most 100 centroid-update iterations of the batch loop: a run never stops
\* anywhere but at the end of kmeans, and there the output array holds the
\* current assignment.
C1_TerminatesWithinCap ==
    /\ pc = "done" \/ ENABLED Next
    /\ n_updates <= MaxBatchIterations
    /\ pc = "done" => cluster_assignment_final = cluster_assignment_cur

\* C2: the totD of every accepted iteration is less than or equal to the
\* prev_totD it was compared with.
C2_TotDNonIncreasing ==
    accepted # <<>> => DLessEq(accepted[2], accepted[1])

\* C3: after the initial assignment every point is mapped to a cluster index
\* in [0, k), and so is every entry of cluster_assignment_final on return.
C3_AssignmentInRange ==
    /\ pc # "start" => InRange(cluster_assignment_cur)
    /\ pc = "done" => InRange(cluster_assignment_final)

\* C4: calc_cluster_centroids never divides a centroid coordinate by a member
\* count of zero.
C4_NoDivisionByZero ==
    \A ii \in DOMAIN divisors : divisors[ii] # 0

\* C5: on return the caller's cluster_centroid buffer holds the k centroids the
\* run computed.
C5_CallerReceivesCentroids ==
    pc = "done" =>
        \A i \in 0..(k * dim - 1) :
            i < CentroidArrayLen => caller_centroid[i] = array[i]

\* cluster j is the nearest centroid of point ii by the distances d, the lowest
\* index winning a tie
IsNearest(d, ii, j) ==
    /\ j \in 0..(k - 1)
    /\ \A j2 \in 0..(k - 1) :
          /\ DLessEq(d[ii * k + j], d[ii * k + j2])
          /\ j2 < j => DLess(d[ii * k + j], d[ii * k + j2])

\* C8: after every assignment step (the initial setup, each reassignment of the
\* batch loop) every point is assigned to the centroid at the smallest distance
\* all_distances computed, ties going to the lowest cluster index.
C8_AssignedToNearest ==
    (pc # "start" /\ exit_reason # "worse") =>
        \A ii \in 0..(n - 1) : IsNearest(dist, ii, cluster_assignment_cur[ii])

\* the arithmetic mean of coordinate idx % dim over the points of cluster
\* idx \div dim
MeanOfMembers(cai, idx) ==
    DDivInt(CellSum(0, dim, X, cai, idx, n),
            Cardinality({ii \in 0..(n - 1) : cai[ii] = idx \div dim}))

\* C9: after a call of calc_cluster_centroids with an assignment that leaves no
\* cluster empty, every centroid coordinate is the mean of the points assigned
\* to its cluster.
C9_CentroidIsMean ==
    ((pc = "total" \/ (pc = "write" /\ exit_reason = "worse"))
       /\ \A c \in 0..(k - 1) : \E ii \in 0..(n - 1) : cluster_assignment_cur[ii] = c)
    => \A idx \in 0..(k * dim - 1) :
          idx < CentroidArrayLen => array[idx] = MeanOfMembers(cluster_assignment_cur, idx)

\* C10: when an iteration finds totD increased, kmeans returns the assignment
\* and the centroids of the previous accepted iteration.
C10_RollbackRestores ==
    (pc = "done" /\ exit_reason = "worse" /\ accepted # <<>>) =>
        /\ cluster_assignment_final = accepted[3]
        /\ \A idx \in 0..(k * dim - 1) :
              idx < CentroidArrayLen => array[idx] = accepted[4][idx]

\* C11: kmeans stops at the first iteration whose reassignment changes no
\* point, and then writes that unchanged assignment to
\* cluster_assignment_final; an accepted iteration whose reassignment changes
\* a point goes on to the next iteration, up to the iteration cap.
C11_StopsWhenNothingChanged ==
    /\ exit_reason = "nochange" =>
          /\ pc \in {"write", "done"}
          /\ cluster_assignment_cur = cluster_assignment_prev
          /\ batch_iteration < MaxBatchIterations
          /\ pc = "done" => cluster_assignment_final = cluster_assignment_prev
    /\ (exit_reason = "none" /\ batch_iteration >= 1) =>
          cluster_assignment_cur # cluster_assignment_prev
    /\ exit_reason = "cap" => batch_iteration = MaxBatchIterations

\* a run that went through a changing iteration and then stopped on an
\* unchanged one
C11_Witness ==
    /\ pc = "done"
    /\ exit_reason = "nochange"
    /\ batch_iteration >= 1
    /\ cluster_assignment_final = cluster_assignment_cur

\* C14: for every dim >= 1 and every k in 1..MAX_CLUSTERS, every index with
\* which kmeans, calc_cluster_centroids, get_cluster_member_count and
\* cluster_diag read or write the centroid array and the member-count array
\* lies inside the array that backs it.
C14_IndicesInBounds ==
    (dim >= 1 /\ k >= 1 /\ k <= MAX_CLUSTERS) =>
        ub \cap {"centroid read", "calc_cluster_centroids write",
                 "cluster_diag count write"} = {}

\* ---------------------------------------------------------------- EM driver
\* A parameter set is named by the M-step that produced it: 0 is the initial
\* set (initial sigma, kmeans mus, initial Pk), i the m_output of iteration i.
\* The likelihood an E-step computes is any of LikValues.
LikValues == {FromInt(i) : i \in 0..MaxLik}

DAbs(a) == IF a = NaN THEN NaN ELSE Abs(a)

\* a kmeans call that is not running: the K-Means state of SpecEM
KIdle ==
    /\ dim = 1 /\ n = 1 /\ k = 1
    /\ X = [i \in 0..0 |-> 0]
    /\ caller_centroid = [i \in 0..0 |-> 0]
    /\ array = [i \in 0..(CentroidArrayLen - 1) |-> 0]
    /\ dist = [i \in 0..0 |-> 0]
    /\ cluster_assignment_cur = [i \in 0..0 |-> 0]
    /\ cluster_assignment_prev = [i \in 0..0 |-> 0]
    /\ cluster_assignment_final = [i \in 0..0 |-> 0]
    /\ prev_totD = 0 /\ totD = 0 /\ batch_iteration = 0
    /\ pc = "idle" /\ ub = {} /\ exit_reason = "none"
    /\ n_updates = 0 /\ divisors = <<>> /\ accepted = <<>>

EMInit == KIdle /\ em = [EMIdle EXCEPT !.pc = "start"]

\* lines 491-499: neither likelihood nor old_likelihood is given a value
\* (initial_likelihood is); counter is 0
EMStart ==
    /\ em.pc = "start"
    /\ \E l \in LikValues, o \in LikValues :
         em' = [em EXCEPT !.pc = "test", !.likelihood = l, !.old_likelihood = o,
                          !.counter = 0]
    /\ UNCHANGED kvars

\* the loop condition of line 501
LoopCondition(likelihood, old_likelihood) ==
    DGreater(DSub(likelihood, old_likelihood), FromInt(epsilon))

\* lines 501-502: the loop condition holds
EMContinue ==
    /\ em.pc = "test"
    /\ LoopCondition(em.likelihood, em.old_likelihood)
    /\ em' = [em EXCEPT !.pc = "estep",
                        !.tested = <<em.likelihood, em.old_likelihood>>,
                        !.old_likelihood = em.likelihood]
    /\ UNCHANGED kvars

\* lines 503-506: the parameters the E-step is run with
EStepArgs(counter, m_output) == IF counter = 0 THEN 0 ELSE m_output

EStep ==
    /\ em.pc = "estep"
    /\ \E l \in LikValues :
         em' = [em EXCEPT !.pc = "mstep",
                          !.estep_args = EStepArgs(em.counter, em.m_output),
                          !.e_output = [theta_array |-> em.iterations + 1,
                                        likelihood |-> l]]
    /\ UNCHANGED kvars

\* lines 508-510
MStep ==
    /\ em.pc = "mstep"
    /\ em' = [em EXCEPT !.pc = "test",
                        !.m_output = em.e_output.theta_array,
                        !.likelihood = em.e_output.likelihood,
                        !.iterations = em.iterations + 1]
    /\ UNCHANGED kvars

\* line 501 false, lines 512-514
EMExit ==
    /\ em.pc = "test"
    /\ ~LoopCondition(em.likelihood, em.old_likelihood)
    /\ em' = [em EXCEPT !.pc = "done",
                        !.tested = <<em.likelihood, em.old_likelihood>>]
    /\ UNCHANGED kvars

EMNext == EMStart \/ EMContinue \/ EStep \/ MStep \/ EMExit

SpecEM == EMInit /\ [][EMNext]_vars

\* ------------------------------------------------------------- EM claims
\* C6: the E-step/M-step loop is bounded by a maximum iteration cap: whatever
\* likelihoods the E-step produces, the driver never runs more iterations than
\* the cap.
C6_IterationsWithinCap ==
    em.iterations <= EMIterationCap

\* C7: after an iteration the driver stops if and only if the absolute change
\* of the likelihood is below epsilon.
C7_StopsIffSmallChange ==
    (em.iterations >= 1 /\ em.pc \in {"estep", "done"}) =>
        (em.pc = "done"
           <=> DLess(DAbs(DSub(em.tested[1], em.tested[2])), FromInt(epsilon)))

\* C12: each iteration runs the M-step on the output of that iteration's
\* E-step, and the E-step of every iteration after the first is given the
\* parameters the M-step of the preceding iteration produced, never the
\* initial parameters again.
C12_EStepUsesPreviousMStep ==
    /\ (em.pc = "test" /\ em.iterations >= 1) =>
          em.m_output = em.e_output.theta_array
    /\ (em.pc = "mstep" /\ em.iterations >= 1) =>
          /\ em.estep_args = em.m_output
          /\ em.estep_args = em.iterations

\* C13: the likelihood is initialised before the first E-step so that the
\* first test of the loop passes: the driver never stops before one E-step and
\* one M-step have run.
C13_AtLeastOneIteration ==
    /\ em.pc = "done" => em.iterations >= 1
    /\ (em.pc = "test" /\ em.iterations = 0) =>
          LoopCondition(em.likelihood, em.old_likelihood)
====
